---- MODULE Spec2Model ----
(***************************************************************************)
(* T-Lex Fraud Monitoring Dashboard (src/App.py).                          *)
(*                                                                         *)
(* Texts are sequences of one-character strings.  A NULL cell / Python     *)
(* None is the value None; a NaN cell of a numeric column is NaN and a     *)
(* present number n is <<n>>.                                              *)
(*                                                                         *)
(* Three specifications share the variables:                               *)
(*   SpecText  applies extract_branch_id and parse_reason_fraud to texts   *)
(*             built from fragments;                                       *)
(*   SpecLoad  applies load_fraud_data and the page rendering to query     *)
(*             results drawn from sample records;                          *)
(*   Spec      is the dashboard session: script passes triggered by the    *)
(*             user, the Refresh Now button and the auto-refresh timer,    *)
(*             with the st.cache_data(ttl=60) cache in front of the load.  *)
(***************************************************************************)
EXTENDS Integers, Sequences, FiniteSets, TLC

VARIABLES
    text,              \* SpecText: the argument handed to the text function
    called,            \* SpecText: which function has been applied
    ret_branch,        \* SpecText: value returned by extract_branch_id
    ret_parse,         \* SpecText: outcome of parse_reason_fraud
    time_range,        \* sidebar selectbox "Time Range"
    severity_filter,   \* sidebar multiselect "Severity" (as the tuple passed on)
    auto_refresh,      \* sidebar checkbox "Auto Refresh"
    refresh_interval,  \* sidebar number input "Interval (s)"
    cache,             \* st.cache_data store of load_fraud_data: key -> entry
    pc,                \* where the script run stands
    timer,             \* seconds left of time.sleep(refresh_interval)
    fetched,           \* outcome of the fraudcaseresult query of this pass
    dimtab,            \* outcome of the dim_branch query of this pass
    branch_ids,        \* the branch codes that query asked for
    queried,           \* this pass issued the fraudcaseresult query
    df,                \* the table the page works on
    err,               \* exception that ended the pass ("" when none)
    steps,             \* transform steps load_fraud_data executed in this pass
    rendered,          \* what the page has written, in order
    kpi,               \* the Key Metrics row, <<>> when not shown
    trigger            \* what started the pass

textVars == <<text, called, ret_branch, ret_parse>>
widgetVars == <<time_range, severity_filter, auto_refresh, refresh_interval>>
passVars == <<pc, timer, fetched, dimtab, branch_ids, queried, df, err, steps, rendered, kpi, trigger>>
vars == <<textVars, widgetVars, cache, passVars>>

----------------------------------------------------------------------------
(* Values *)

None == <<"None">>
NaN == <<>>

Min(S) == CHOOSE x \in S : \A y \in S : x <= y
Max(S) == CHOOSE x \in S : \A y \in S : x >= y

\* pd.isna of a text cell
isna(v) == v = None

----------------------------------------------------------------------------
(* Regular expressions of the shape  lit \s* ( head cls+ ) tail            *)

Digit == {"0","1","2","3","4","5","6","7","8","9"}
Letter == {"a","b","c","d","e","f","g","h","i","j","k","l","m","n","o","p","q",
           "r","s","t","u","v","w","x","y","z","A","B","C","D","E","F","G","H",
           "I","J","K","L","M","N","O","P","Q","R","S","T","U","V","W","X","Y","Z"}
Word == Letter \cup Digit \cup {"_"}
DigitDot == Digit \cup {"."}
Space == {" ", "\t", "\n"}

L_RiskScore == <<"R","i","s","k","S","c","o","r","e",":">>
L_EBITDA == <<"E","B","I","T","D","A",":">>
L_Server == <<"S","e","r","v","e","r",":">>
L_TX == <<"T","X",":">>
L_CustomerKey == <<"C","u","s","t","o","m","e","r","K","e","y",":">>
L_Wait == <<"W","a","i","t",":">>
L_Amount == <<"A","m","o","u","n","t",":">>

\* s has lit at position i
StartsAt(s, i, lit) ==
    /\ i + Len(lit) - 1 <= Len(s)
    /\ \A k \in 1..Len(lit) : s[i + k - 1] = lit[k]

\* length of the longest run of cls characters of s that starts at k
RunLen(s, k, cls) ==
    CHOOSE n \in 0..(Len(s) + 1 - k) :
        /\ \A m \in 0..(n - 1) : s[k + m] \in cls
        /\ (k + n > Len(s) \/ s[k + n] \notin cls)

\* group(1) of the match of p that starts at i, None when there is none.
\* cls+ is greedy and gives characters back until tail matches; \s* never
\* gives back, no head or class starts with white space.
CaptureAt(s, p, i) ==
    LET a == i + Len(p.lit)
        b == IF p.ws THEN a + RunLen(s, a, Space) ELSE a
        c == b + Len(p.head)
        ns == {n \in 1..RunLen(s, c, p.cls) : StartsAt(s, c + n, p.tail)}
    IN  IF StartsAt(s, i, p.lit) /\ StartsAt(s, b, p.head) /\ ns # {}
        THEN SubSeq(s, b, c + Max(ns) - 1)
        ELSE None

\* re.search(p, s).group(1): the leftmost match
re_search(p, s) ==
    LET hits == {i \in 1..Len(s) : CaptureAt(s, p, i) # None}
    IN  IF hits = {} THEN None ELSE CaptureAt(s, p, Min(hits))

DigitVal(ch) ==
    CASE ch = "0" -> 0 [] ch = "1" -> 1 [] ch = "2" -> 2 [] ch = "3" -> 3
      [] ch = "4" -> 4 [] ch = "5" -> 5 [] ch = "6" -> 6 [] ch = "7" -> 7
      [] ch = "8" -> 8 [] ch = "9" -> 9

\* str.strip()
strip(v) ==
    LET keep == {i \in 1..Len(v) : v[i] \notin Space}
    IN  IF keep = {} THEN <<>> ELSE SubSeq(v, Min(keep), Max(keep))

\* int(value) of a string of digits
RECURSIVE int(_)
int(v) == IF v = <<>> THEN 0
          ELSE 10 * int(SubSeq(v, 1, Len(v) - 1)) + DigitVal(v[Len(v)])

\* float(value) of a string of digits and dots raises ValueError unless the
\* string has a digit and at most one dot
float_raises(v) ==
    \/ Cardinality({i \in 1..Len(v) : v[i] = "."}) > 1
    \/ \A i \in 1..Len(v) : v[i] \notin Digit

\* float(value): whole part and the fraction digits without trailing zeros
float(v) ==
    LET dots == {i \in 1..Len(v) : v[i] = "."}
        d == IF dots = {} THEN Len(v) + 1 ELSE Min(dots)
        fr == SubSeq(v, d + 1, Len(v))
        nz == {i \in 1..Len(fr) : fr[i] # "0"}
    IN  [whole |-> int(SubSeq(v, 1, d - 1)),
         frac |-> IF nz = {} THEN <<>> ELSE SubSeq(fr, 1, Max(nz))]

----------------------------------------------------------------------------
(* parse_reason_fraud and extract_branch_id *)

Keys == {"risk_score", "ebitda", "server", "tx_id", "customer_key", "wait_time", "amount"}
IntKeys == {"risk_score", "ebitda", "customer_key", "wait_time"}
FloatKeys == {"amount"}

patterns ==
    [risk_score   |-> [lit |-> L_RiskScore, ws |-> TRUE, head |-> <<>>, cls |-> Digit, tail |-> <<>>],
     ebitda       |-> [lit |-> L_EBITDA, ws |-> TRUE, head |-> <<>>, cls |-> Digit, tail |-> <<"%">>],
     server       |-> [lit |-> L_Server, ws |-> TRUE, head |-> <<>>, cls |-> Word, tail |-> <<>>],
     tx_id        |-> [lit |-> L_TX, ws |-> TRUE, head |-> <<"T","X">>, cls |-> Digit, tail |-> <<>>],
     customer_key |-> [lit |-> L_CustomerKey, ws |-> TRUE, head |-> <<>>, cls |-> Digit, tail |-> <<>>],
     wait_time    |-> [lit |-> L_Wait, ws |-> TRUE, head |-> <<>>, cls |-> Digit, tail |-> <<"m">>],
     amount       |-> [lit |-> L_Amount, ws |-> TRUE, head |-> <<>>, cls |-> DigitDot, tail |-> <<>>]]

\* the pattern without its closing parenthesis
branch_pattern_unclosed ==
    [lit |-> <<"(">>, ws |-> FALSE, head |-> <<"B">>, cls |-> Digit, tail |-> <<>>]

branch_pattern ==
    [lit |-> <<"(">>, ws |-> FALSE, head |-> <<"B">>, cls |-> Digit, tail |-> <<")">>]

\* the keys whose pattern matches
matched_keys(reason) ==
    IF isna(reason) THEN {}
    ELSE {k \in Keys : re_search(patterns[k], reason) # None}

\* the conversion of a matched value raises ValueError
parse_raises(reason) ==
    \E k \in matched_keys(reason) \cap FloatKeys :
        float_raises(strip(re_search(patterns[k], reason)))

typed_value(k, value) ==
    IF k \in IntKeys THEN int(value)
    ELSE IF k \in FloatKeys THEN float(value)
    ELSE value

\* the dictionary parse_reason_fraud returns when it does not raise
parse_reason_fraud(reason) ==
    [k \in matched_keys(reason) |->
        typed_value(k, strip(re_search(patterns[k], reason)))]

extract_branch_id(branch_text) ==
    IF isna(branch_text) THEN None
    ELSE re_search(branch_pattern, branch_text)

----------------------------------------------------------------------------
(* FRAUD_TAXONOMY, the tables and load_fraud_data *)

INTERNAL == {"employee_transaction_manipulation", "customer_staff_collusion",
             "inventory_fraud", "branch_risk_exposure", "branch_operational_risk"}
EXTERNAL == {"promotion_abuse", "late_night_high_spend", "queue_low_value_anomaly"}

\* the columns the fraudcaseresult query selects
BaseCols == {"No", "Fraudcases_count", "Branch", "zone_name", "Reason Fraud",
             "fraudtype", "timeInvestigation", "fraudamount", "Fraudster"}
\* the columns the dim_branch query adds to branch_id
DimCols == {"branch_name", "province", "latitude", "longitude"}

HighThreshold == 50
MediumThreshold == 30

\* a table: its columns and its rows, every row a record over the columns
NoDF == [cols |-> {}, rows |-> <<>>]

Range(f) == {f[i] : i \in DOMAIN f}

RECURSIVE Sum(_)
Sum(q) == IF q = <<>> THEN 0 ELSE Head(q) + Sum(Tail(q))

\* df['branch_id'] = df['Branch'].apply(extract_branch_id)
add_branch_id(rows) ==
    [i \in 1..Len(rows) |->
        rows[i] @@ ("branch_id" :> extract_branch_id(rows[i].Branch))]

\* the columns of pd.DataFrame(parsed_data.tolist()): every key some row has
parsed_columns(rows) ==
    UNION {matched_keys(rows[i]["Reason Fraud"]) : i \in 1..Len(rows)}

\* pd.concat([df, parsed_df], axis=1): a row without the key holds NaN
add_parsed(rows) ==
    LET pcols == parsed_columns(rows)
    IN  [i \in 1..Len(rows) |->
            LET d == parse_reason_fraud(rows[i]["Reason Fraud"])
            IN  rows[i] @@ [k \in pcols |-> IF k \in DOMAIN d THEN <<d[k]>> ELSE NaN]]

\* the upper threshold taken as exclusive
severity_of_exclusive(cols, r) ==
    LET has == "risk_score" \in cols /\ r.risk_score # NaN
    IN  IF has /\ r.risk_score[1] > HighThreshold THEN "HIGH"
        ELSE IF has /\ r.risk_score[1] >= MediumThreshold
                    /\ r.risk_score[1] < HighThreshold THEN "MEDIUM"
        ELSE "LOW"

W_BLOCK == <<"B","L","O","C","K">>
W_REJECT == <<"R","E","J","E","C","T">>
TerminalKeywords == {W_BLOCK, W_REJECT}

Contains(s, w) == s # None /\ \E i \in 1..Len(s) : StartsAt(s, i, w)
HasKeyword(reason) == \E w \in TerminalKeywords : Contains(reason, w)

\* a keyword in the reason text forcing HIGH ahead of the thresholds
severity_of_keywords(cols, r) ==
    LET has == "risk_score" \in cols /\ r.risk_score # NaN
    IN  IF HasKeyword(r["Reason Fraud"]) THEN "HIGH"
        ELSE IF has /\ r.risk_score[1] >= HighThreshold THEN "HIGH"
        ELSE IF has /\ r.risk_score[1] >= MediumThreshold THEN "MEDIUM"
        ELSE "LOW"

\* the label the three assignments to df['severity'] leave on row r
severity_of(cols, r) ==
    LET has == "risk_score" \in cols /\ r.risk_score # NaN
        s0 == "LOW"
        s1 == IF has /\ r.risk_score[1] >= HighThreshold THEN "HIGH" ELSE s0
        s2 == IF has /\ r.risk_score[1] >= MediumThreshold
                     /\ r.risk_score[1] < HighThreshold THEN "MEDIUM" ELSE s1
    IN  s2

add_severity(cols, rows) ==
    [i \in 1..Len(rows) |-> rows[i] @@ ("severity" :> severity_of(cols, rows[i]))]

\* df = df[df['severity'].isin(severity_filter)] when a severity is selected
\* a filter that keeps every row
apply_severity_filter_skipped(rows, sevf) == rows

apply_severity_filter(rows, sevf) ==
    IF sevf # <<>>
    THEN SelectSeq(rows, LAMBDA r : r.severity \in Range(sevf))
    ELSE rows

\* df['branch_id'].dropna().unique()
branch_ids_of(rows) == {rows[i].branch_id : i \in 1..Len(rows)} \ {None}

\* what the database returns for  WHERE branch_id IN branch_ids
select_branches(table, ids) == SelectSeq(table, LAMBDA d : d.branch_id \in ids)

NoBranch == [branch_name |-> None, province |-> None, latitude |-> NaN, longitude |-> NaN]

\* the rows one left row becomes in df.merge(branch_df, on='branch_id', how='left')
merge_row(r, branch_df) ==
    LET m == SelectSeq(branch_df, LAMBDA d : d.branch_id = r.branch_id)
    IN  IF m = <<>> THEN <<r @@ NoBranch>>
        ELSE [i \in 1..Len(m) |->
                r @@ [branch_name |-> m[i].branch_name, province |-> m[i].province,
                      latitude |-> m[i].latitude, longitude |-> m[i].longitude]]

RECURSIVE merge_left(_, _)
merge_left(rows, branch_df) ==
    IF rows = <<>> THEN <<>>
    ELSE merge_row(Head(rows), branch_df) \o merge_left(Tail(rows), branch_df)

\* date, hour, day_of_week from timeInvestigation and fraud_category
add_derived(rows) ==
    [i \in 1..Len(rows) |->
        rows[i] @@ [date |-> rows[i].timeInvestigation.date,
                    hour |-> rows[i].timeInvestigation.hour,
                    day_of_week |-> rows[i].timeInvestigation.day_of_week,
                    fraud_category |-> IF rows[i].fraudtype \in INTERNAL
                                       THEN "Internal" ELSE "External"]]

DerivedCols == {"date", "hour", "day_of_week", "fraud_category"}

\* One uncached call of load_fraud_data.  fetch is the outcome of the
\* fraudcaseresult query, dim the outcome of the dim_branch query (the table
\* contents, or a connection error) should it be issued.  The result names the
\* exception raised ("" when none), the table returned, the steps entered and
\* whether the dim_branch query was issued.
load_fraud_data(fetch, dim, sevf) ==
    IF fetch.status # "ok"
    THEN [raised |-> "OperationalError", df |-> NoDF, steps |-> <<"fetch">>,
          dim_queried |-> FALSE, branch_ids |-> {}]
    ELSE IF fetch.rows = <<>>
    THEN [raised |-> "", df |-> [cols |-> BaseCols, rows |-> <<>>],
          steps |-> <<"fetch">>, dim_queried |-> FALSE, branch_ids |-> {}]
    ELSE IF \E i \in 1..Len(fetch.rows) : parse_raises(fetch.rows[i]["Reason Fraud"])
    THEN [raised |-> "ValueError", df |-> NoDF,
          steps |-> <<"fetch", "extract_branch_id", "parse_reason_fraud">>,
          dim_queried |-> FALSE, branch_ids |-> {}]
    ELSE
    LET r1 == add_parsed(add_branch_id(fetch.rows))
        c1 == BaseCols \cup {"branch_id"} \cup parsed_columns(fetch.rows)
        r2 == apply_severity_filter(add_severity(c1, r1), sevf)
        c2 == c1 \cup {"severity"}
        ids == branch_ids_of(r2)
        s2 == <<"fetch", "extract_branch_id", "parse_reason_fraud", "severity",
                "severity_filter">>
    IN  IF ids = {}
        THEN [raised |-> "",
              df |-> [cols |-> c2 \cup DerivedCols, rows |-> add_derived(r2)],
              steps |-> s2 \o <<"derive">>, dim_queried |-> FALSE, branch_ids |-> {}]
        ELSE IF dim.status # "ok"
        THEN [raised |-> "OperationalError", df |-> NoDF,
              steps |-> s2 \o <<"branch_query">>, dim_queried |-> TRUE,
              branch_ids |-> ids]
        ELSE [raised |-> "",
              df |-> [cols |-> c2 \cup DimCols \cup DerivedCols,
                      rows |-> add_derived(
                                 merge_left(r2, select_branches(dim.rows, ids)))],
              steps |-> s2 \o <<"branch_query", "merge", "derive">>,
              dim_queried |-> TRUE, branch_ids |-> ids]

----------------------------------------------------------------------------
(* The page below "Load Data" *)

Count(rows, P(_)) == Cardinality({i \in 1..Len(rows) : P(rows[i])})

key_metrics(t) ==
    [total |-> Len(t.rows),
     high_risk |-> Count(t.rows, LAMBDA r : r.severity = "HIGH"),
     total_amount |-> Sum([i \in 1..Len(t.rows) |-> t.rows[i].fraudamount]),
     branches |-> Cardinality(branch_ids_of(t.rows)),
     internal |-> Count(t.rows, LAMBDA r : r.fraud_category = "Internal"),
     external |-> Count(t.rows, LAMBDA r : r.fraud_category = "External")]

\* the columns the Fraud Map section reads without asking whether they exist
map_columns == {"latitude", "longitude"}

fraud_map(t) ==
    LET map_df == SelectSeq(t.rows, LAMBDA r : r.latitude # NaN /\ r.longitude # NaN)
    IN  IF map_df # <<>> THEN <<"Fraud Map", "chart">>
        ELSE <<"Fraud Map", "warning: No location data available">>

guarded(t, col, section) ==
    IF col \in t.cols THEN <<section, "chart">> ELSE <<section, "nothing">>

tab(t, ftype, section) ==
    IF \E i \in 1..Len(t.rows) : t.rows[i].fraudtype = ftype
    THEN <<section, "table">> ELSE <<section, "info: none found">>

\* the script without the st.stop() on an empty table
render_without_stop(t) ==
    IF ~(map_columns \subseteq t.cols)
    THEN [status |-> "KeyError",
          rendered |-> << <<"Key Metrics", "metrics">> >>,
          kpi |-> <<key_metrics(t)>>]
    ELSE [status |-> "ok",
          rendered |-> << <<"Key Metrics", "metrics">>, fraud_map(t) >>,
          kpi |-> <<key_metrics(t)>>]

\* One run of the script from "if df.empty" to the end of the tabs: how it
\* ends (st.stop, an exception, or the last tab), what it wrote, and the Key
\* Metrics row if it was shown.
render(t) ==
    IF t.rows = <<>>
    THEN [status |-> "stopped",
          rendered |-> << <<"Load Data", "warning: No fraud data found">> >>,
          kpi |-> <<>>]
    ELSE IF ~(map_columns \subseteq t.cols)
    THEN [status |-> "KeyError",
          rendered |-> << <<"Key Metrics", "metrics">> >>,
          kpi |-> <<key_metrics(t)>>]
    ELSE [status |-> "ok",
          rendered |-> << <<"Key Metrics", "metrics">>,
                          fraud_map(t),
                          <<"Fraud Trend", "chart">>,
                          <<"Fraud Type Distribution", "chart">>,
                          guarded(t, "branch_name", "Top 15 Branches"),
                          guarded(t, "province", "Fraud by Province"),
                          <<"Severity Breakdown", "chart">>,
                          <<"Fraud Amount Distribution", "chart">>,
                          <<"Day of Week x Hour", "chart">>,
                          <<"All Cases", "table">>,
                          tab(t, "branch_risk_exposure", "Branch Risk"),
                          tab(t, "customer_staff_collusion", "Collusion"),
                          tab(t, "late_night_high_spend", "High Spend"),
                          tab(t, "queue_low_value_anomaly", "Queue Anomaly") >>,
          kpi |-> <<key_metrics(t)>>]

----------------------------------------------------------------------------
(* SpecText: the text functions on bounded texts *)

\* st.number_input("Interval (s)", 30, 600, 60) and st.cache_data(ttl=60)
MinInterval == 30
MaxInterval == 600
DefaultInterval == 60
Ttl == 60

MaxBranchFrags == 5
MaxReasonFrags == 3

BranchFragments == {<<"(">>, <<")">>, <<"B">>, <<"A">>, <<"1">>, <<"2">>, <<" ">>}

ReasonFragments ==
    {L_RiskScore, L_EBITDA, L_Server, L_TX, L_CustomerKey, L_Wait, L_Amount,
     <<" ">>, <<"5">>, <<"0">>, <<".">>, <<"%">>, <<"m">>, <<"T","X","7">>,
     <<"1",".","2",".","3">>, <<"|">>}

RECURSIVE TextsUpTo(_, _)
TextsUpTo(F, n) ==
    IF n = 0 THEN {<<>>}
    ELSE LET T == TextsUpTo(F, n - 1) IN T \cup {t \o f : t \in T, f \in F}

Texts == {None} \cup TextsUpTo(BranchFragments, MaxBranchFrags)
                \cup TextsUpTo(ReasonFragments, MaxReasonFrags)

NoParse == [raised |-> FALSE, data |-> <<>>]

IdleInit ==
    /\ time_range = "Last 7 Days"
    /\ severity_filter = <<>>
    /\ auto_refresh = FALSE
    /\ refresh_interval = DefaultInterval
    /\ cache = <<>>
    /\ pc = "start"
    /\ timer = 0
    /\ fetched = [status |-> "none", rows |-> <<>>]
    /\ dimtab = [status |-> "none", rows |-> <<>>]
    /\ branch_ids = {}
    /\ queried = FALSE
    /\ err = ""
    /\ steps = <<>>
    /\ rendered = <<>>
    /\ kpi = <<>>
    /\ trigger = "none"

InitText ==
    /\ text \in Texts
    /\ called = "none"
    /\ ret_branch = None
    /\ ret_parse = NoParse
    /\ IdleInit
    /\ df = NoDF

CallExtract ==
    /\ called = "none"
    /\ called' = "extract_branch_id"
    /\ ret_branch' = extract_branch_id(text)
    /\ UNCHANGED <<text, ret_parse, widgetVars, cache, passVars>>

CallParse ==
    /\ called = "none"
    /\ called' = "parse_reason_fraud"
    /\ ret_parse' = IF parse_raises(text)
                    THEN [raised |-> TRUE, data |-> <<>>]
                    ELSE [raised |-> FALSE, data |-> parse_reason_fraud(text)]
    /\ UNCHANGED <<text, ret_branch, widgetVars, cache, passVars>>

NextText == CallExtract \/ CallParse

SpecText == InitText /\ [][NextText]_vars

----------------------------------------------------------------------------
(* Sample records *)

T_SiamB1 == <<"S","i","a","m"," ","(","B","1",")">>
T_AsokB2 == <<"A","s","o","k"," ","(","B","2",")">>
T_HQ == <<"H","Q">>
T_KioskA7 == <<"K","i","o","s","k"," ","(","A","7",")">>
T_Score50 == <<"R","i","s","k","S","c","o","r","e",":"," ","5","0"," ","|"," ","S","e","r","v","e","r",":"," ","s","1">>
T_Score49 == <<"R","i","s","k","S","c","o","r","e",":"," ","4","9"," ","|"," ","E","B","I","T","D","A",":"," ","5","%">>
T_Score10Reject == <<"R","i","s","k","S","c","o","r","e",":"," ","1","0"," ","|"," ","R","E","J","E","C","T">>
T_BlockWait == <<"B","L","O","C","K"," ","|"," ","W","a","i","t",":"," ","1","5","m">>
T_Score30 == <<"R","i","s","k","S","c","o","r","e",":","3","0">>
T_BadAmount == <<"A","m","o","u","n","t",":"," ","1",".","2",".","3">>
T_Siam == <<"S","i","a","m">>
T_Asok == <<"A","s","o","k">>
T_Bangkok == <<"B","a","n","g","k","o","k">>
T_B1 == <<"B","1">>
T_B2 == <<"B","2">>

Monday23 == [date |-> "2025-01-06", hour |-> 23, day_of_week |-> "Monday"]

Case(no, branch, reason, ftype, amount) ==
    [No |-> no, Fraudcases_count |-> 1, Branch |-> branch, zone_name |-> None,
     fraudtype |-> ftype, timeInvestigation |-> Monday23, fraudamount |-> amount,
     Fraudster |-> None] @@ ("Reason Fraud" :> reason)

CaseHigh == Case(1, T_SiamB1, T_Score50, "customer_staff_collusion", 100)
CaseMedium == Case(2, T_AsokB2, T_Score49, "branch_risk_exposure", 200)
CaseLowKeyword == Case(3, T_HQ, T_Score10Reject, "promotion_abuse", 0)
CaseNoScoreKeyword == Case(4, None, T_BlockWait, "queue_low_value_anomaly", 50)
CaseOtherLetter == Case(5, T_KioskA7, T_Score30, "late_night_high_spend", 300)
CaseBadAmount == Case(6, T_SiamB1, T_BadAmount, "late_night_high_spend", 10)
CaseNullReason == Case(7, T_AsokB2, None, "inventory_fraud", 20)

SampleCases == {CaseHigh, CaseMedium, CaseLowKeyword, CaseNoScoreKeyword,
                CaseOtherLetter, CaseBadAmount, CaseNullReason}

BranchB1 == [branch_id |-> T_B1, branch_name |-> T_Siam, province |-> T_Bangkok,
             latitude |-> <<13>>, longitude |-> <<100>>]
BranchB1Again == [branch_id |-> T_B1, branch_name |-> T_Asok, province |-> T_Bangkok,
                  latitude |-> <<14>>, longitude |-> <<101>>]
BranchB2NoPlace == [branch_id |-> T_B2, branch_name |-> T_Asok, province |-> None,
                    latitude |-> NaN, longitude |-> NaN]

\* contents of dim_branch
DimTables == {<<>>, <<BranchB1>>, <<BranchB1, BranchB2NoPlace>>,
              <<BranchB1, BranchB1Again>>}

ConnError == [status |-> "error", rows |-> <<>>]
NoQuery == [status |-> "none", rows |-> <<>>]
Ok(rows) == [status |-> "ok", rows |-> rows]

MaxRows == 2

RECURSIVE SeqsUpTo(_, _)
SeqsUpTo(S, n) ==
    IF n = 0 THEN {<<>>}
    ELSE LET T == SeqsUpTo(S, n - 1) IN T \cup {Append(t, x) : t \in T, x \in S}

SeverityFilters == {<<>>, <<"HIGH">>, <<"LOW">>, <<"HIGH", "MEDIUM">>}

----------------------------------------------------------------------------
(* SpecLoad: load_fraud_data and the page on bounded query results *)

InitLoad ==
    /\ text = None /\ called = "none" /\ ret_branch = None /\ ret_parse = NoParse
    /\ time_range = "Last 7 Days"
    /\ severity_filter \in SeverityFilters
    /\ auto_refresh = FALSE
    /\ refresh_interval = DefaultInterval
    /\ cache = <<>>
    /\ pc = "input"
    /\ timer = 0
    /\ fetched \in {ConnError} \cup {Ok(r) : r \in SeqsUpTo(SampleCases, MaxRows)}
    /\ dimtab \in {ConnError} \cup {Ok(t) : t \in DimTables}
    /\ branch_ids = {}
    /\ queried = FALSE
    /\ df = NoDF
    /\ err = ""
    /\ steps = <<>>
    /\ rendered = <<>>
    /\ kpi = <<>>
    /\ trigger = "none"

\* the call of load_fraud_data
Load ==
    /\ pc = "input"
    /\ LET ld == load_fraud_data(fetched, dimtab, severity_filter)
       IN  /\ df' = ld.df
           /\ err' = ld.raised
           /\ steps' = ld.steps
           /\ branch_ids' = ld.branch_ids
           /\ pc' = IF ld.raised # "" THEN "error" ELSE "loaded"
    /\ queried' = TRUE
    /\ UNCHANGED <<textVars, widgetVars, cache, timer, fetched, dimtab, rendered,
                   kpi, trigger>>

\* the rest of the script on the table load_fraud_data returned
Render ==
    /\ pc = "loaded"
    /\ LET page == render(df)
       IN  /\ rendered' = page.rendered
           /\ kpi' = page.kpi
           /\ err' = IF page.status = "KeyError" THEN "KeyError" ELSE ""
           /\ pc' = CASE page.status = "stopped" -> "stopped"
                      [] page.status = "KeyError" -> "error"
                      [] OTHER -> "done"
    /\ UNCHANGED <<textVars, widgetVars, cache, timer, fetched, dimtab, branch_ids,
                   queried, df, steps, trigger>>

NextLoad == Load \/ Render

SpecLoad == InitLoad /\ [][NextLoad]_vars

----------------------------------------------------------------------------
(* Spec: the dashboard session *)

MaxIntervalSteps == 3

\* the cache ages in steps of the shortest refresh interval
Intervals == {k * MinInterval : k \in 1..MaxIntervalSteps} \cap MinInterval..MaxInterval
\* the time range stays at its default; touching the selectbox reruns the script
TimeRanges == {"Last 7 Days"}
SessionFilters == {<<>>, <<"HIGH">>}

\* what the two queries may return during a session
SessionFetches == {ConnError, Ok(<<>>), Ok(<<CaseHigh>>), Ok(<<CaseLowKeyword>>)}
SessionDims == {ConnError, Ok(<<BranchB1>>)}

\* the arguments of the call of load_fraud_data; fraud types and the
\* connection fields stay at their defaults
LoadArgs(tr, sevf) ==
    [time_range |-> tr, fraud_types |-> <<>>, severity_filter |-> sevf,
     host |-> "n8n.madt.pro", port |-> "5432", db |-> "tlex_suki_db",
     user |-> "alex888", password |-> "is2025"]

\* a key that leaves the severity filter out
CacheKey_without_severity(tr, sevf) == LoadArgs(tr, <<>>)

\* the key of the cache entry of a call: all of its arguments
CacheKey(tr, sevf) == LoadArgs(tr, sevf)

\* a cache whose entries never expire
aged_without_ttl(c, d) ==
    [k \in DOMAIN c |->
        [c[k] EXCEPT !.age = IF c[k].age + d < Ttl THEN c[k].age + d ELSE Ttl]]

\* the cache d seconds later: an entry is served while younger than ttl
aged(c, d) ==
    LET live == {k \in DOMAIN c : c[k].age + d < Ttl}
    IN  [k \in live |-> [c[k] EXCEPT !.age = c[k].age + d]]

\* load_fraud_data on every outcome the session's queries can have
SessionLoads ==
    [fetch \in SessionFetches |-> [dim \in SessionDims |-> [sevf \in SessionFilters |->
        load_fraud_data(fetch, dim, sevf)]]]

\* a pass that stores whatever the load left behind, also when it raised
PassOutcome_storing_failures(key, args, ld, page, ar, ri, c0, fetch, dim) ==
    LET hit == key \in DOMAIN c0
        raised == IF hit THEN "" ELSE ld.raised
        end == IF raised # "" THEN "error"
               ELSE CASE page.status = "stopped" -> "stopped"
                      [] page.status = "KeyError" -> "error"
                      [] OTHER -> IF ar THEN "sleeping" ELSE "done"
    IN  [cache |-> IF hit THEN c0
                   ELSE (key :> [value |-> ld.df, age |-> 0, args |-> args]) @@ c0,
         queried |-> ~hit,
         fetched |-> IF hit THEN NoQuery ELSE fetch,
         dimtab |-> IF ~hit /\ ld.dim_queried THEN dim ELSE NoQuery,
         branch_ids |-> IF hit THEN {} ELSE ld.branch_ids,
         df |-> IF hit THEN c0[key].value ELSE ld.df,
         err |-> IF raised # "" THEN raised
                 ELSE IF page.status = "KeyError" THEN "KeyError" ELSE "",
         steps |-> IF hit THEN <<>> ELSE ld.steps,
         rendered |-> IF raised # "" THEN <<>> ELSE page.rendered,
         kpi |-> IF raised # "" THEN <<>> ELSE page.kpi,
         pc |-> end,
         timer |-> IF end = "sleeping" THEN ri ELSE 0]

\* How a run of the script ends.  key is the cache key of its arguments args
\* (an entry remembers the arguments of the call that filled it), ld
\* what the call of load_fraud_data does when the cache c0 does not hold key,
\* page what the script writes for the table it got.  The exception of the
\* load ends the run; a result is stored only when load_fraud_data returns.
PassOutcome(key, args, ld, page, ar, ri, c0, fetch, dim) ==
    LET hit == key \in DOMAIN c0
        raised == IF hit THEN "" ELSE ld.raised
        end == IF raised # "" THEN "error"
               ELSE CASE page.status = "stopped" -> "stopped"
                      [] page.status = "KeyError" -> "error"
                      [] OTHER -> IF ar THEN "sleeping" ELSE "done"
    IN  [cache |-> IF hit \/ raised # "" THEN c0
                   ELSE (key :> [value |-> ld.df, age |-> 0, args |-> args]) @@ c0,
         queried |-> ~hit,
         fetched |-> IF hit THEN NoQuery ELSE fetch,
         dimtab |-> IF ~hit /\ ld.dim_queried THEN dim ELSE NoQuery,
         branch_ids |-> IF hit THEN {} ELSE ld.branch_ids,
         df |-> IF hit THEN c0[key].value ELSE ld.df,
         err |-> IF raised # "" THEN raised
                 ELSE IF page.status = "KeyError" THEN "KeyError" ELSE "",
         steps |-> IF hit THEN <<>> ELSE ld.steps,
         rendered |-> IF raised # "" THEN <<>> ELSE page.rendered,
         kpi |-> IF raised # "" THEN <<>> ELSE page.kpi,
         pc |-> end,
         timer |-> IF end = "sleeping" THEN ri ELSE 0]

\* the table the script works on: the stored one, else the one just loaded
PassTable(key, ld, c0) == IF key \in DOMAIN c0 THEN c0[key].value ELSE ld.df

PassLoaded(key, args, ld, ar, ri, c0, fetch, dim) ==
    PassOutcome(key, args, ld, render(PassTable(key, ld, c0)), ar, ri, c0, fetch, dim)

\* One run of the script with the given widget values on cache c0, the
\* queries returning fetch and dim should they be issued.
PassResult(tr, sevf, ar, ri, c0, fetch, dim) ==
    PassLoaded(CacheKey(tr, sevf), LoadArgs(tr, sevf), SessionLoads[fetch][dim][sevf],
               ar, ri, c0, fetch, dim)

SetPass(r, tr, sevf, ar, ri, why) ==
    /\ time_range' = tr
    /\ severity_filter' = sevf
    /\ auto_refresh' = ar
    /\ refresh_interval' = ri
    /\ cache' = r.cache
    /\ queried' = r.queried
    /\ fetched' = r.fetched
    /\ dimtab' = r.dimtab
    /\ branch_ids' = r.branch_ids
    /\ df' = r.df
    /\ err' = r.err
    /\ steps' = r.steps
    /\ rendered' = r.rendered
    /\ kpi' = r.kpi
    /\ pc' = r.pc
    /\ timer' = r.timer
    /\ trigger' = why
    /\ UNCHANGED textVars

Pass(tr, sevf, ar, ri, c0, why) ==
    \E fetch \in SessionFetches, dim \in SessionDims :
        SetPass(PassResult(tr, sevf, ar, ri, c0, fetch, dim), tr, sevf, ar, ri, why)

Init ==
    /\ text = None /\ called = "none" /\ ret_branch = None /\ ret_parse = NoParse
    /\ IdleInit
    /\ df = NoDF

\* the first run of the script, widgets at their defaults
Start ==
    /\ pc = "start"
    /\ Pass(time_range, severity_filter, auto_refresh, refresh_interval, cache, "start")

\* the number of widgets whose value differs from the current one
Changed(tr, sevf, ar, ri) ==
    (IF tr # time_range THEN 1 ELSE 0) + (IF sevf # severity_filter THEN 1 ELSE 0)
    + (IF ar # auto_refresh THEN 1 ELSE 0) + (IF ri # refresh_interval THEN 1 ELSE 0)

\* the user touches one widget (a filter, an auto-refresh control, or one
\* that changes no argument): the script reruns at once, a pending sleep is
\* dropped
UserInput ==
    /\ pc # "start"
    /\ \E tr \in TimeRanges, sevf \in SessionFilters, ar \in BOOLEAN, ri \in Intervals :
          /\ Changed(tr, sevf, ar, ri) <= 1
          /\ Pass(tr, sevf, ar, ri, cache, "user")

\* "Refresh Now": st.cache_data.clear() and st.rerun()
RefreshNow ==
    /\ pc # "start"
    /\ Pass(time_range, severity_filter, auto_refresh, refresh_interval, <<>>, "refresh")

\* time.sleep(refresh_interval) returns and st.rerun() reruns the script
TimerRerun ==
    /\ pc = "sleeping"
    /\ timer = 0
    /\ Pass(time_range, severity_filter, auto_refresh, refresh_interval, cache, "timer")

\* MinInterval seconds pass
Tick ==
    /\ pc # "start"
    /\ pc = "sleeping" => timer > 0
    /\ cache' = aged(cache, MinInterval)
    /\ timer' = IF pc = "sleeping" THEN timer - MinInterval ELSE timer
    /\ UNCHANGED <<textVars, widgetVars, pc, fetched, dimtab, branch_ids, queried,
                   df, err, steps, rendered, kpi, trigger>>

Next == Start \/ UserInput \/ RefreshNow \/ TimerRerun \/ Tick

Spec == Init /\ [][Next]_vars

----------------------------------------------------------------------------
(* Properties *)

Rows == 1..Len(df.rows)
Labels == {"HIGH", "MEDIUM", "LOW"}

\* the risk score parse_reason_fraud finds in the reason text of row r
HasScore(r) == "risk_score" \in DOMAIN parse_reason_fraud(r["Reason Fraud"])
Score(r) == parse_reason_fraud(r["Reason Fraud"]).risk_score

\* C1: every record of the loaded table carries exactly one label of
\* HIGH/MEDIUM/LOW, fixed by its parsed risk score: HIGH from 50 up, MEDIUM
\* from 30 to 49, LOW below 30 or without a score; with no severity selected
\* every fetched record is in the table.
C1_SeverityByScore ==
    /\ \A i \in Rows :
        LET r == df.rows[i]
        IN  /\ r.severity \in Labels
            /\ (HasScore(r) /\ Score(r) >= 50) => r.severity = "HIGH"
            /\ (HasScore(r) /\ Score(r) >= 30 /\ Score(r) < 50) => r.severity = "MEDIUM"
            /\ (~HasScore(r) \/ Score(r) < 30) => r.severity = "LOW"
    /\ (pc \in {"loaded", "stopped", "done"} /\ severity_filter = <<>>) =>
        \A j \in 1..Len(fetched.rows) : \E i \in Rows : df.rows[i].No = fetched.rows[j].No

\* C1 witness: a table holding a record of score 50 labelled HIGH next to a
\* record without a score labelled LOW
C1_Witness ==
    /\ pc = "done"
    /\ \E i \in Rows : HasScore(df.rows[i]) /\ Score(df.rows[i]) = 50
                       /\ df.rows[i].severity = "HIGH"
    /\ \E i \in Rows : ~HasScore(df.rows[i]) /\ df.rows[i].severity = "LOW"

LeftRows ==
    LET r1 == add_parsed(add_branch_id(fetched.rows))
        c1 == BaseCols \cup {"branch_id"} \cup parsed_columns(fetched.rows)
    IN  apply_severity_filter(add_severity(c1, r1), severity_filter)

\* C3: whatever dim_branch returns (no row, one row, several rows for one
\* branch_id), the merge leaves as many fraud-case rows as entered it, and a
\* row without a matching branch is kept with absent branch fields.
C3_MergeKeepsRowCount ==
    "merge" \in Range(steps) =>
        /\ Len(df.rows) = Len(LeftRows)
        /\ \A i \in Rows :
              (\A k \in 1..Len(dimtab.rows) : dimtab.rows[k].branch_id # df.rows[i].branch_id)
                  => /\ df.rows[i].branch_name = None /\ df.rows[i].province = None
                     /\ df.rows[i].latitude = NaN /\ df.rows[i].longitude = NaN

\* C4: a pass whose fraudcaseresult query raises a connection error ends in
\* the error state having entered no later step of load_fraud_data, rendered
\* nothing, and stored nothing in the cache under its arguments.
C4_FetchErrorEndsPass ==
    fetched.status = "error" =>
        /\ pc = "error"
        /\ err = "OperationalError"
        /\ steps = <<"fetch">>
        /\ dimtab = NoQuery
        /\ df = NoDF
        /\ rendered = <<>>
        /\ kpi = <<>>
        /\ CacheKey(time_range, severity_filter) \notin DOMAIN cache

\* C4 witness: a pass whose query failed while the cache holds the result of
\* an earlier pass with other arguments
C4_Witness ==
    /\ fetched.status = "error"
    /\ pc = "error"
    /\ cache # <<>>

\* a pass ended on a table without records
ZeroRecords == pc \in {"stopped", "done", "sleeping", "error"} /\ df.cols # {} /\ df.rows = <<>>

ZeroMetrics ==
    [total |-> 0, high_risk |-> 0, total_amount |-> 0, branches |-> 0,
     internal |-> 0, external |-> 0]

\* C5 as stated: with zero records the pass raises no error, the Key Metrics
\* are shown and are all zero, and the sections show a no-data state.
C5_ZeroRecordsShowZeroCounts ==
    ZeroRecords =>
        /\ err = ""
        /\ kpi = <<ZeroMetrics>>
        /\ \E i \in 1..Len(rendered) : rendered[i][1] = "Fraud Map"

\* C5 amended: with zero records (the query returned no rows, or the severity
\* filter removed every row) the pass raises no error, shows the single
\* warning "No fraud data found" and stops before the Key Metrics and every
\* other section, so no count is shown.
C5_ZeroRecordsStopPass ==
    ZeroRecords =>
        /\ err = ""
        /\ pc = "stopped"
        /\ rendered = << <<"Load Data", "warning: No fraud data found">> >>
        /\ kpi = <<>>

\* C5 witness: the query returned a LOW record and the severity filter HIGH
\* removed it
C5_Witness ==
    /\ ZeroRecords
    /\ queried
    /\ fetched.rows # <<>>
    /\ severity_filter = <<"HIGH">>
    /\ "severity" \in df.cols

\* C6: for a table with records none of which carries a branch code, the map
\* section and every later section complete without an error.
C6_SectionsTolerateMissingColumns ==
    (pc \in {"stopped", "done", "error"} /\ df.rows # <<>> /\ branch_ids_of(df.rows) = {})
        => (pc = "done" /\ err = "")

\* C7: parse_reason_fraud never fails and returns exactly the keys whose
\* pattern matched.
C7_ParseNeverFails ==
    called = "parse_reason_fraud" =>
        /\ ~ret_parse.raised
        /\ DOMAIN ret_parse.data = matched_keys(text)

\* the spans i..j of s that hold "(", a character of first, digits, ")"
CodeSpans(s, first) ==
    {x \in (1..Len(s)) \X (1..Len(s)) :
        /\ x[2] >= x[1] + 3
        /\ s[x[1]] = "(" /\ s[x[2]] = ")"
        /\ s[x[1] + 1] \in first
        /\ \A k \in (x[1] + 2)..(x[2] - 1) : s[k] \in Digit}

\* C8 as stated: the code returned is a parenthesized letter followed by
\* digits whenever the descriptor holds one, and absent otherwise.
C8_AnyLetterCode ==
    called = "extract_branch_id" =>
        LET sp == CodeSpans(text, Letter)
        IN  IF sp = {} THEN ret_branch = None
            ELSE \E x \in sp : ret_branch = SubSeq(text, x[1] + 1, x[2] - 1)

\* C8 amended: extract_branch_id returns the first parenthesized code made of
\* the capital letter B followed by digits, and an absent value for a
\* descriptor without one: a null one, or one whose code starts with another
\* letter.
C8_BranchCode ==
    called = "extract_branch_id" =>
        LET sp == CodeSpans(text, {"B"})
        IN  IF sp = {} THEN ret_branch = None
            ELSE \E x \in sp : /\ \A y \in sp : x[1] <= y[1]
                               /\ ret_branch = SubSeq(text, x[1] + 1, x[2] - 1)

\* C8 witness: a descriptor with text before the code "(B1)"
C8_Witness ==
    /\ called = "extract_branch_id"
    /\ ret_branch = <<"B", "1">>
    /\ text[1] # "("

\* C9: with auto-refresh enabled every pass, a halted one included, ends in the
\* sleep that reruns the script.
C9_EveryPassRearmsTimer ==
    (pc # "start" /\ auto_refresh) => pc = "sleeping"

\* a step that runs the script
PassStep == Start \/ UserInput \/ RefreshNow \/ TimerRerun

\* C10 as stated: every pass issues the fraudcaseresult query.
C10_EveryPassQueries ==
    pc # "start" => queried

\* C10 amended: a pass issues the query and works on the rows it returned,
\* unless the cache holds a result stored under the identical arguments less
\* than 60 seconds earlier and not cleared since; then it shows that stored
\* result without querying.
C10_FreshUnlessCached ==
    [][PassStep =>
        LET key == CacheKey(time_range', severity_filter')
        IN  /\ queried' \/ (/\ key \in DOMAIN cache
                            /\ cache[key].age < Ttl
                            /\ df' = cache[key].value)
            /\ (queried' /\ err' \in {"", "KeyError"}) =>
                  {df'.rows[i].No : i \in 1..Len(df'.rows)}
                      \subseteq {fetched'.rows[j].No : j \in 1..Len(fetched'.rows)}]_vars

\* C10 witness: a timer-triggered pass served from the cache
C10_Witness ==
    /\ trigger = "timer"
    /\ ~queried
    /\ df.rows # <<>>

\* C11: the cache of load_fraud_data is keyed by all the arguments of the
\* call.  A pass that does not query the database works on the value of an
\* entry that a call with the very arguments of this pass filled less than
\* ttl seconds ago.  No entry outlives "Refresh Now": the pass it starts
\* queries the database, and what the cache holds afterwards that pass stored.
C11_ServedOnlyOwnFreshEntry ==
    [][/\ (PassStep /\ ~queried') =>
             \E k \in DOMAIN cache :
                /\ cache[k].args = LoadArgs(time_range', severity_filter')
                /\ cache[k].age < Ttl
                /\ df' = cache[k].value
       /\ RefreshNow =>
             /\ queried'
             /\ \A k \in DOMAIN cache' :
                   /\ cache'[k].args = LoadArgs(time_range', severity_filter')
                   /\ cache'[k].age = 0
                   /\ cache'[k].value = df']_vars

\* the user switches back to a filter whose result is still stored next to
\* the result of another filter
C11_Witness ==
    /\ trigger = "user"
    /\ ~queried
    /\ Cardinality(DOMAIN cache) = 2
    /\ df.rows # <<>>
    /\ cache[CacheKey(time_range, severity_filter)].age > 0

\* the label lines 288-291 give a fetched record
LabelOf(r) ==
    IF HasScore(r) /\ Score(r) >= 50 THEN "HIGH"
    ELSE IF HasScore(r) /\ Score(r) >= 30 THEN "MEDIUM" ELSE "LOW"

\* the fetched records the severity selection keeps
Remaining ==
    {j \in 1..Len(fetched.rows) :
        severity_filter = <<>> \/ LabelOf(fetched.rows[j]) \in Range(severity_filter)}

\* C12: the severity filter works on the derived labels and before the
\* branch lookup.  Once load_fraud_data is past its parsing, dim_branch is
\* asked for exactly the branch codes of the records the selection keeps (and
\* not asked at all when they carry none); the table it returns holds exactly
\* those records, each with a severity of the selection when one is made, and
\* every fetched record when none is made.
C12_FilterBeforeBranchLookup ==
    (pc # "input" /\ fetched.status = "ok" /\ err # "ValueError") =>
        /\ branch_ids = {extract_branch_id(fetched.rows[j].Branch) : j \in Remaining} \ {None}
        /\ "branch_query" \in Range(steps) <=> branch_ids # {}
        /\ err # "OperationalError" =>
              /\ severity_filter # <<>> =>
                    \A i \in Rows : df.rows[i].severity \in Range(severity_filter)
              /\ {df.rows[i].No : i \in Rows} = {fetched.rows[j].No : j \in Remaining}
              /\ severity_filter = <<>> => Len(df.rows) >= Len(fetched.rows)

\* a HIGH record of branch B1 is kept and a record of another branch is
\* removed: dim_branch is asked for B1 only
C12_Witness ==
    /\ pc = "done"
    /\ severity_filter = <<"HIGH">>
    /\ df.rows # <<>>
    /\ branch_ids = {T_B1}
    /\ \E j \in 1..Len(fetched.rows) :
          extract_branch_id(fetched.rows[j].Branch) \notin branch_ids \cup {None}

====
